---- MODULE Spec2Model ----
(***************************************************************************)
(* Lifecycle and streaming-inference layer of SpeechTranslator:            *)
(*   llama_bridge.cpp   (translation manager: init / translate / free)     *)
(*   whisper_bridge.cpp (ASR manager: init / transcribe / free)            *)
(* The engines (llama.cpp, whisper.cpp) are external; their results are    *)
(* inputs chosen nondeterministically.  Pointers are modelled as           *)
(* allocation ids, 0 standing for nullptr; the sets of live and of freed   *)
(* ids are the allocator's view of the heap.                               *)
(*                                                                         *)
(* The two bridges are separate translation units whose statics are        *)
(* file-local: no call of one reads or writes anything of the other.  A    *)
(* run of the caller is therefore explored one bridge at a time: `bridge`  *)
(* names the bridge whose calls the run makes.                             *)
(***************************************************************************)
EXTENDS Integers, Sequences, FiniteSets, TLC

(* ----------------------------- bounds ---------------------------------- *)
\* how many models / contexts / ASR handles the engines may allocate in a run
MaxAlloc == 2
\* longest explicit prefix of a sampler behaviour (see Scripts)
MaxPrefix == 1
\* latest step decode (1-based) that the engine may fail
MaxFail == 2
\* most segments a transcription pass may leave
MaxSegs == 2

(* ------------------------ program constants ---------------------------- *)
NULL == 0
\* for (int i = 0; i < 512; ++i)
STEP_CAP == 512
\* std::vector<llama_token> toks(prompt.size() + 64)
TOK_SLACK == 64
\* char piece[256]
PIECE_BUF == 256
\* static int g_threads = 4
DEFAULT_THREADS == 4

(* ------------------------------ state ---------------------------------- *)
VARIABLES
  bridge,       \* the bridge this run of the caller drives
  g_model,      \* llama_bridge.cpp: static llama_model*   g_model
  g_ctx,        \* llama_bridge.cpp: static llama_context* g_ctx
  g_threads,    \* llama_bridge.cpp: static int            g_threads
  liveModels,   \* llama models loaded and not yet freed
  freedModels,  \* llama models freed
  liveCtxs,     \* llama contexts created and not yet freed
  freedCtxs,    \* llama contexts freed
  ctxModel,     \* for each context ever created, the model it was created from
  ctx_mem,      \* tokens in the memory of the context g_ctx points to
  w_ctx,        \* whisper_bridge.cpp: static whisper_context* g_ctx
  w_threads,    \* whisper_bridge.cpp: static int              g_threads
  liveW,        \* whisper contexts loaded and not yet freed
  freedW,       \* whisper contexts freed
  faults,       \* engine calls made on a released object, and double releases
  last,         \* the call that ran last: what it did, delivered and returned
  t_pc,         \* llama_bridge_translate followed step by step: where it stands
  t_i           \* llama_bridge_translate followed step by step: the loop's int i

vars == <<bridge, g_model, g_ctx, g_threads, liveModels, freedModels, liveCtxs, freedCtxs,
          ctxModel, ctx_mem, w_ctx, w_threads, liveW, freedW, faults, last, t_pc, t_i>>

llamaVars == <<g_model, g_ctx, g_threads, liveModels, freedModels, liveCtxs,
               freedCtxs, ctxModel, ctx_mem>>
whisperVars == <<w_ctx, w_threads, liveW, freedW>>

\* thread counts a caller passes
ThreadCounts == {2}

(* ------------------------------ calls ---------------------------------- *)
\* One engine call or callback made by an operation: <<name, argument>>.  A
\* "segment_text" event has a third component, the segment the engine returned.
Ev(name, arg) == <<name, arg>>

\* What an operation leaves in `last`.
Call(op, ok, events, cbs, text) ==
  [op |-> op, ok |-> ok, events |-> events, cbs |-> cbs, text |-> text]

\* positions of the events of one kind in a call's event list
At(events, name) == {k \in 1..Len(events) : events[k][1] = name}

\* the arguments of the events of one kind, in order
Args(events, name) ==
  LET sel == SelectSeq(events, LAMBDA e : e[1] = name)
  IN [k \in 1..Len(sel) |-> sel[k][2]]

(* ----------------------------- allocator ------------------------------- *)
\* the id the allocator hands out next: ids are never reused
NewId(live, freed) == Cardinality(live \cup freed) + 1

\* faults raised by releasing object `id` of kind `kind`
ReleaseFault(kind, id, live) ==
  IF id \in live THEN {} ELSE {<<"double_free", kind, id>>}

\* faults raised by handing object `id` of kind `kind` to an engine operation
UseFault(kind, id, live) ==
  IF id \in live THEN {} ELSE {<<"use_after_free", kind, id>>}

Init ==
  /\ bridge \in {"llama", "whisper"}
  /\ g_model = NULL
  /\ g_ctx = NULL
  /\ g_threads = DEFAULT_THREADS
  /\ liveModels = {}
  /\ freedModels = {}
  /\ liveCtxs = {}
  /\ freedCtxs = {}
  /\ ctxModel = <<>>
  /\ ctx_mem = <<>>
  /\ w_ctx = NULL
  /\ w_threads = DEFAULT_THREADS
  /\ liveW = {}
  /\ freedW = {}
  /\ faults = {}
  /\ last = Call("none", TRUE, <<>>, <<>>, <<>>)
  /\ t_pc = "idle"
  /\ t_i = 0

(* ------------------------- llama_bridge.cpp ---------------------------- *)
\* llama_bridge_init, model load failed (line 23-24)
LlamaInitLoadFails(n_threads) ==
  /\ g_threads' = n_threads
  /\ g_model' = NULL
  /\ last' = Call("llama_init", FALSE, <<Ev("model_load", NULL)>>, <<>>, <<>>)
  /\ UNCHANGED <<g_ctx, liveModels, freedModels, liveCtxs, freedCtxs, ctxModel,
                 ctx_mem, faults>>

\* LlamaInitCtxFails returning without llama_model_free
LlamaInitCtxFails_NoFree(n_threads) ==
  LET m == NewId(liveModels, freedModels) IN
  /\ m <= MaxAlloc
  /\ g_threads' = n_threads
  /\ g_ctx' = NULL
  /\ ctx_mem' = <<>>
  /\ g_model' = m
  /\ liveModels' = liveModels \cup {m}
  /\ last' = Call("llama_init", FALSE,
                  <<Ev("model_load", m), Ev("ctx_new", NULL)>>, <<>>, <<>>)
  /\ UNCHANGED <<freedModels, liveCtxs, freedCtxs, ctxModel, faults>>

\* llama_bridge_init, model loaded but the context was not created (line 32-37)
LlamaInitCtxFails(n_threads) ==
  LET m == NewId(liveModels, freedModels) IN
  /\ m <= MaxAlloc
  /\ g_threads' = n_threads
  /\ g_ctx' = NULL
  /\ ctx_mem' = <<>>
  /\ g_model' = NULL
  /\ liveModels' = liveModels
  /\ freedModels' = freedModels \cup {m}
  /\ faults' = faults \cup ReleaseFault("model", m, liveModels \cup {m})
  /\ last' = Call("llama_init", FALSE,
                  <<Ev("model_load", m), Ev("ctx_new", NULL), Ev("model_free", m)>>,
                  <<>>, <<>>)
  /\ UNCHANGED <<liveCtxs, freedCtxs, ctxModel>>

\* llama_bridge_init, model loaded and context created (line 17-49)
LlamaInitSucceeds(n_threads) ==
  LET m == NewId(liveModels, freedModels)
      c == NewId(liveCtxs, freedCtxs) IN
  /\ m <= MaxAlloc
  /\ c <= MaxAlloc
  /\ g_threads' = n_threads
  /\ g_model' = m
  /\ liveModels' = liveModels \cup {m}
  /\ g_ctx' = c
  /\ liveCtxs' = liveCtxs \cup {c}
  /\ ctxModel' = Append(ctxModel, m)
  /\ ctx_mem' = <<>>
  /\ last' = Call("llama_init", TRUE, <<Ev("model_load", m), Ev("ctx_new", c)>>,
                  <<>>, <<>>)
  /\ UNCHANGED <<freedModels, freedCtxs, faults>>

llama_bridge_init ==
  \E n_threads \in ThreadCounts :
    /\ \/ LlamaInitLoadFails(n_threads)
       \/ LlamaInitCtxFails(n_threads)
       \/ LlamaInitSucceeds(n_threads)
    /\ UNCHANGED whisperVars

\* llama_bridge_free leaving g_ctx and g_model as they were
llama_bridge_free_NoNull ==
  LET freeCtx == g_ctx # NULL
      freeModel == g_model # NULL IN
  /\ liveCtxs' = IF freeCtx THEN liveCtxs \ {g_ctx} ELSE liveCtxs
  /\ freedCtxs' = IF freeCtx THEN freedCtxs \cup {g_ctx} ELSE freedCtxs
  /\ liveModels' = IF freeModel THEN liveModels \ {g_model} ELSE liveModels
  /\ freedModels' = IF freeModel THEN freedModels \cup {g_model} ELSE freedModels
  /\ faults' = faults
        \cup (IF freeCtx THEN ReleaseFault("ctx", g_ctx, liveCtxs) ELSE {})
        \cup (IF freeModel THEN ReleaseFault("model", g_model, liveModels) ELSE {})
  /\ last' = Call("llama_free", TRUE,
                  (IF freeCtx THEN <<Ev("ctx_free", g_ctx)>> ELSE <<>>)
                  \o (IF freeModel THEN <<Ev("model_free", g_model)>> ELSE <<>>),
                  <<>>, <<>>)
  /\ UNCHANGED <<g_model, g_ctx, ctx_mem, g_threads, ctxModel>>
  /\ UNCHANGED whisperVars

\* llama_bridge_free (line 99-102)
llama_bridge_free ==
  LET freeCtx == g_ctx # NULL
      freeModel == g_model # NULL IN
  /\ liveCtxs' = IF freeCtx THEN liveCtxs \ {g_ctx} ELSE liveCtxs
  /\ freedCtxs' = IF freeCtx THEN freedCtxs \cup {g_ctx} ELSE freedCtxs
  /\ g_ctx' = NULL
  /\ ctx_mem' = <<>>
  /\ liveModels' = IF freeModel THEN liveModels \ {g_model} ELSE liveModels
  /\ freedModels' = IF freeModel THEN freedModels \cup {g_model} ELSE freedModels
  /\ g_model' = NULL
  /\ faults' = faults
        \cup (IF freeCtx THEN ReleaseFault("ctx", g_ctx, liveCtxs) ELSE {})
        \cup (IF freeModel THEN ReleaseFault("model", g_model, liveModels) ELSE {})
  /\ last' = Call("llama_free", TRUE,
                  (IF freeCtx THEN <<Ev("ctx_free", g_ctx)>> ELSE <<>>)
                  \o (IF freeModel THEN <<Ev("model_free", g_model)>> ELSE <<>>),
                  <<>>, <<>>)
  /\ UNCHANGED <<g_threads, ctxModel>>
  /\ UNCHANGED whisperVars

(* ------------------- engine behaviour (inputs) ------------------------- *)
\* Vocabulary of the loaded model: token 0 is the end-of-generation marker,
\* tokens 1 and 2 render to one character, token 3 renders to nothing,
\* token 4 renders to more bytes than the piece buffer holds.
TOK_EOG == 0
TOK_BOS == 5
TOK_TEXT == 6
Tokens == {TOK_EOG, 1, 2, 3, 4}

\* llama_vocab_is_eog
IsEog(tok) == tok = TOK_EOG

\* the text of a token
PieceText(tok) ==
  CASE tok = 1 -> <<"a">>
    [] tok = 2 -> <<"b">>
    [] tok = 4 -> [k \in 1..(PIECE_BUF + 1) |-> "x"]
    [] OTHER -> <<>>

\* llama_token_to_piece(vocab, tok, piece, sizeof(piece), 0, true): the number
\* of bytes written, or minus the number needed when the buffer is too small
TokenToPiece(tok) ==
  IF Len(PieceText(tok)) > PIECE_BUF THEN 0 - Len(PieceText(tok))
  ELSE Len(PieceText(tok))

\* A sampler behaviour: the tokens of `prefix` one after the other, and `tail`
\* at every later step.
PrefixesUpTo(n) == UNION {[1..k -> Tokens] : k \in 0..n}
Scripts == [prefix : PrefixesUpTo(MaxPrefix), tail : {TOK_EOG, 1}]

\* llama_sampler_sample at step i (0-based) of a call
Sample(script, i) ==
  IF i < Len(script.prefix) THEN script.prefix[i + 1] ELSE script.tail

\* Which one-token llama_decode of a call fails: the decode of the k-th
\* sampled token (k >= 1), or none.
NoFail == 0
StepFails == {NoFail} \cup 1..MaxFail

\* Prompt sizes in bytes.
PromptSizes == {0, 1}

\* What llama_tokenize makes of a prompt: `count` is the number of tokens the
\* prompt has, `under` is by how much the size it asks for falls short of that
\* number (0 for a tokenizer that reports the size it needs).  The prompts
\* have no token, or one token more than the buffer of an empty prompt holds,
\* or one more than any first buffer holds and a size reported one too small.
Tokenizations ==
  { [count |-> 0, under |-> 0],
    [count |-> TOK_SLACK + 1, under |-> 0],
    [count |-> TOK_SLACK + 2, under |-> 1] }

\* the tokens of a prompt of n tokens
PromptTokens(n) == [k \in 1..n |-> IF k = 1 THEN TOK_BOS ELSE TOK_TEXT]

\* llama_tokenize into a buffer of `cap` tokens: the token count, or minus the
\* size asked for when the buffer is too small
Tokenize(tk, cap) ==
  IF tk.count <= cap THEN tk.count ELSE 0 - (tk.count - tk.under)

(* ------------------------- translate: the body ------------------------- *)
\* What a call has done so far: the engine calls and callbacks in order, the
\* fragments delivered, the tokens in the context's memory, and whether the
\* loop has been left by a break.
Acc(events, cbs, mem, done) ==
  [events |-> events, cbs |-> cbs, mem |-> mem, done |-> done]

\* LoopBody with the callback guarded by len >= 0
LoopBody_EmptyFragments(i, script, fail, acc) ==
  LET tok == Sample(script, i)
      a1 == Acc(Append(acc.events, Ev("sample", tok)), acc.cbs, acc.mem, FALSE)
  IN
  IF IsEog(tok) THEN Acc(a1.events, a1.cbs, a1.mem, TRUE)
  ELSE
    LET len == TokenToPiece(tok)
        a2 == IF len >= 0
                THEN Acc(Append(a1.events, Ev("on_token", tok)),
                         Append(a1.cbs, SubSeq(PieceText(tok), 1, len)),
                         a1.mem, FALSE)
                ELSE a1
    IN
    IF fail = i + 1
      THEN Acc(Append(a2.events, Ev("decode_fail", tok)), a2.cbs, a2.mem, TRUE)
      ELSE Acc(Append(a2.events, Ev("decode", tok)), a2.cbs,
               Append(a2.mem, tok), FALSE)

\* LoopBody going on after a failed step decode
LoopBody_NoBreak(i, script, fail, acc) ==
  LET tok == Sample(script, i)
      a1 == Acc(Append(acc.events, Ev("sample", tok)), acc.cbs, acc.mem, FALSE)
  IN
  IF IsEog(tok) THEN Acc(a1.events, a1.cbs, a1.mem, TRUE)
  ELSE
    LET len == TokenToPiece(tok)
        a2 == IF len > 0
                THEN Acc(Append(a1.events, Ev("on_token", tok)),
                         Append(a1.cbs, SubSeq(PieceText(tok), 1, len)),
                         a1.mem, FALSE)
                ELSE a1
    IN
    IF fail = i + 1
      THEN Acc(Append(a2.events, Ev("decode_fail", tok)), a2.cbs, a2.mem, FALSE)
      ELSE Acc(Append(a2.events, Ev("decode", tok)), a2.cbs,
               Append(a2.mem, tok), FALSE)

\* the body of the loop (line 86-93) at step i
LoopBody(i, script, fail, acc) ==
  LET tok == Sample(script, i)
      a1 == Acc(Append(acc.events, Ev("sample", tok)), acc.cbs, acc.mem, FALSE)
  IN
  IF IsEog(tok) THEN Acc(a1.events, a1.cbs, a1.mem, TRUE)
  ELSE
    LET len == TokenToPiece(tok)
        a2 == IF len > 0
                THEN Acc(Append(a1.events, Ev("on_token", tok)),
                         Append(a1.cbs, SubSeq(PieceText(tok), 1, len)),
                         a1.mem, FALSE)
                ELSE a1
    IN
    IF fail = i + 1
      THEN Acc(Append(a2.events, Ev("decode_fail", tok)), a2.cbs, a2.mem, TRUE)
      ELSE Acc(Append(a2.events, Ev("decode", tok)), a2.cbs,
               Append(a2.mem, tok), FALSE)

\* the iterations lo <= i < hi of the loop, in order, up to a break
RECURSIVE Iterate(_, _, _, _, _)
Iterate(lo, hi, script, fail, acc) ==
  IF acc.done \/ ~(lo < hi) THEN acc
  ELSE IF hi - lo = 1 THEN LoopBody(lo, script, fail, acc)
  ELSE LET mid == lo + ((hi - lo) \div 2)
           first == Iterate(lo, mid, script, fail, acc)
       IN IF first.done THEN first ELSE Iterate(mid, hi, script, fail, first)

\* DecodeLoop with the bound i <= 512
DecodeLoop_OffByOne(script, fail, acc) == Iterate(0, STEP_CAP + 1, script, fail, acc)

\* for (int i = 0; i < 512; ++i) { ... } (line 85-94)
DecodeLoop(script, fail, acc) == Iterate(0, STEP_CAP, script, fail, acc)

\* TokenizePrompt resizing the buffer to one token less than asked for
TokenizePrompt_ResizeShort(psize, tk) ==
  LET n1 == Tokenize(tk, psize + TOK_SLACK)
      n2 == Tokenize(tk, (0 - n1) - 1) IN
  IF n1 < 0
    THEN [n |-> n2,
          events |-> <<Ev("tokenize", n1), Ev("resize", (0 - n1) - 1),
                       Ev("tokenize", n2)>>]
    ELSE [n |-> n1, events |-> <<Ev("tokenize", n1)>>]

\* line 59-66: tokenize, and once more into a buffer of the size asked for
TokenizePrompt(psize, tk) ==
  LET n1 == Tokenize(tk, psize + TOK_SLACK)
      n2 == Tokenize(tk, 0 - n1) IN
  IF n1 < 0
    THEN [n |-> n2,
          events |-> <<Ev("tokenize", n1), Ev("resize", 0 - n1),
                       Ev("tokenize", n2)>>]
    ELSE [n |-> n1, events |-> <<Ev("tokenize", n1)>>]

\* line 55-67: the memory is cleared and the prompt tokenized
Tokenized(psize, tk) ==
  Acc(<<Ev("memory_clear", 0)>> \o TokenizePrompt(psize, tk).events,
      <<>>, <<>>, TokenizePrompt(psize, tk).n <= 0)

\* line 73-76 when llama_decode of the prompt succeeds
Prefilled(psize, tk) ==
  LET a0 == Tokenized(psize, tk) IN
  Acc(Append(a0.events, Ev("prefill", TokenizePrompt(psize, tk).n)),
      a0.cbs, PromptTokens(TokenizePrompt(psize, tk).n), FALSE)

\* Generate returning from a failed step decode instead of breaking
Generate_ReturnOnFailure(script, fail, acc) ==
  LET a1 == Acc(Append(acc.events, Ev("sampler_init", 0)), acc.cbs, acc.mem, FALSE)
      a2 == DecodeLoop(script, fail, a1)
  IN IF a2.events[Len(a2.events)][1] = "decode_fail"
       THEN Acc(a2.events, a2.cbs, a2.mem, TRUE)
       ELSE Acc(Append(a2.events, Ev("sampler_free", 0)), a2.cbs, a2.mem, TRUE)

\* line 79-96: the sampler chain, the loop, and the chain's release
Generate(script, fail, acc) ==
  LET a1 == Acc(Append(acc.events, Ev("sampler_init", 0)), acc.cbs, acc.mem, FALSE)
      a2 == DecodeLoop(script, fail, a1)
  IN Acc(Append(a2.events, Ev("sampler_free", 0)), a2.cbs, a2.mem, TRUE)

\* PrefillFails going on to generate instead of returning
PrefillFails_NoReturn(psize, tk) ==
  LET a0 == Tokenized(psize, tk) IN
  Generate([prefix |-> <<1>>, tail |-> TOK_EOG], NoFail,
           Acc(Append(a0.events, Ev("prefill_fail", TokenizePrompt(psize, tk).n)),
               a0.cbs, a0.mem, FALSE))

\* line 73-76 when llama_decode of the prompt fails
PrefillFails(psize, tk) ==
  LET a0 == Tokenized(psize, tk) IN
  Acc(Append(a0.events, Ev("prefill_fail", TokenizePrompt(psize, tk).n)),
      a0.cbs, a0.mem, TRUE)

\* Generate after a successful prefill, tabulated over the inputs (each entry
\* is computed once)
GenerateTable ==
  [x \in {y \in PromptSizes \X Tokenizations \X Scripts \X StepFails :
             TokenizePrompt(y[1], y[2]).n > 0} |->
     Generate(x[3], x[4], Prefilled(x[1], x[2]))] @@ <<>>

\* TranslateReturns of a call that did not clear the memory
TranslateReturns_NoClear(acc) ==
  /\ ctx_mem' = ctx_mem \o acc.mem
  /\ faults' = faults \cup UseFault("ctx", g_ctx, liveCtxs)
                      \cup UseFault("model", g_model, liveModels)
                      \cup (IF g_ctx \in DOMAIN ctxModel
                              THEN UseFault("model", ctxModel[g_ctx], liveModels)
                              ELSE {})
  /\ last' = Call("llama_translate", TRUE, acc.events, acc.cbs, <<>>)

\* the call returns: what it did goes to `last`, the memory stays as it left it
TranslateReturns(acc) ==
  /\ ctx_mem' = acc.mem
  /\ faults' = faults \cup UseFault("ctx", g_ctx, liveCtxs)
                      \cup UseFault("model", g_model, liveModels)
                      \cup (IF g_ctx \in DOMAIN ctxModel
                              THEN UseFault("model", ctxModel[g_ctx], liveModels)
                              ELSE {})
  /\ last' = Call("llama_translate", TRUE, acc.events, acc.cbs, <<>>)

\* llama_bridge_translate with the guard if (!g_ctx) return
llama_bridge_translate_CtxOnly ==
  \E psize \in PromptSizes, tk \in Tokenizations :
    /\ IF g_ctx = NULL
         THEN /\ last' = Call("llama_translate", TRUE, <<>>, <<>>, <<>>)
              /\ UNCHANGED <<ctx_mem, faults>>
         ELSE IF TokenizePrompt(psize, tk).n <= 0
           THEN TranslateReturns(Tokenized(psize, tk))
           ELSE \/ TranslateReturns(PrefillFails(psize, tk))
                \/ \E script \in Scripts, fail \in StepFails :
                     TranslateReturns(GenerateTable[<<psize, tk, script, fail>>])
    /\ UNCHANGED <<g_model, g_ctx, g_threads, liveModels, freedModels, liveCtxs,
                   freedCtxs, ctxModel>>
    /\ UNCHANGED whisperVars

\* llama_bridge_translate with the test if (n < 0) after tokenization
llama_bridge_translate_ZeroTokens ==
  \E psize \in PromptSizes, tk \in Tokenizations :
    /\ IF g_ctx = NULL \/ g_model = NULL
         THEN /\ last' = Call("llama_translate", TRUE, <<>>, <<>>, <<>>)
              /\ UNCHANGED <<ctx_mem, faults>>
         ELSE IF TokenizePrompt(psize, tk).n < 0
           THEN TranslateReturns(Tokenized(psize, tk))
           ELSE \/ TranslateReturns(PrefillFails(psize, tk))
                \/ \E script \in Scripts, fail \in StepFails :
                     TranslateReturns(
                       IF TokenizePrompt(psize, tk).n = 0
                         THEN Generate(script, fail, Prefilled(psize, tk))
                         ELSE GenerateTable[<<psize, tk, script, fail>>])
    /\ UNCHANGED <<g_model, g_ctx, g_threads, liveModels, freedModels, liveCtxs,
                   freedCtxs, ctxModel>>
    /\ UNCHANGED whisperVars

\* llama_bridge_translate (line 52-97)
llama_bridge_translate ==
  \E psize \in PromptSizes, tk \in Tokenizations :
    /\ IF g_ctx = NULL \/ g_model = NULL
         THEN /\ last' = Call("llama_translate", TRUE, <<>>, <<>>, <<>>)
              /\ UNCHANGED <<ctx_mem, faults>>
         ELSE IF TokenizePrompt(psize, tk).n <= 0
           THEN TranslateReturns(Tokenized(psize, tk))
           ELSE \/ TranslateReturns(PrefillFails(psize, tk))
                \/ \E script \in Scripts, fail \in StepFails :
                     TranslateReturns(GenerateTable[<<psize, tk, script, fail>>])
    /\ UNCHANGED <<g_model, g_ctx, g_threads, liveModels, freedModels, liveCtxs,
                   freedCtxs, ctxModel>>
    /\ UNCHANGED whisperVars

(* ------------------------ whisper_bridge.cpp --------------------------- *)
\* whisper_bridge_init without the release of the handle held
whisper_bridge_init_NoRelease ==
  \E n_threads \in ThreadCounts, loaded \in BOOLEAN :
    LET held == FALSE
        live1 == IF held THEN liveW \ {w_ctx} ELSE liveW
        freed1 == IF held THEN freedW \cup {w_ctx} ELSE freedW
        h == NewId(live1, freed1)
        release == IF held THEN <<Ev("whisper_free", w_ctx)>> ELSE <<>> IN
    /\ loaded => h <= MaxAlloc
    /\ w_threads' = n_threads
    /\ faults' = faults \cup (IF held THEN ReleaseFault("whisper", w_ctx, liveW) ELSE {})
    /\ freedW' = freed1
    /\ IF loaded
         THEN /\ w_ctx' = h
              /\ liveW' = live1 \cup {h}
              /\ last' = Call("whisper_init", TRUE,
                              release \o <<Ev("whisper_load", h)>>, <<>>, <<>>)
         ELSE /\ w_ctx' = NULL
              /\ liveW' = live1
              /\ last' = Call("whisper_init", FALSE,
                              release \o <<Ev("whisper_load", NULL)>>, <<>>, <<>>)
    /\ UNCHANGED llamaVars

\* whisper_bridge_init (line 15-25)
whisper_bridge_init ==
  \E n_threads \in ThreadCounts, loaded \in BOOLEAN :
    LET held == w_ctx # NULL
        live1 == IF held THEN liveW \ {w_ctx} ELSE liveW
        freed1 == IF held THEN freedW \cup {w_ctx} ELSE freedW
        h == NewId(live1, freed1)
        release == IF held THEN <<Ev("whisper_free", w_ctx)>> ELSE <<>> IN
    /\ loaded => h <= MaxAlloc
    /\ w_threads' = n_threads
    /\ faults' = faults \cup (IF held THEN ReleaseFault("whisper", w_ctx, liveW) ELSE {})
    /\ freedW' = freed1
    /\ IF loaded
         THEN /\ w_ctx' = h
              /\ liveW' = live1 \cup {h}
              /\ last' = Call("whisper_init", TRUE,
                              release \o <<Ev("whisper_load", h)>>, <<>>, <<>>)
         ELSE /\ w_ctx' = NULL
              /\ liveW' = live1
              /\ last' = Call("whisper_init", FALSE,
                              release \o <<Ev("whisper_load", NULL)>>, <<>>, <<>>)
    /\ UNCHANGED llamaVars

\* whisper_bridge_free leaving g_ctx as it was
whisper_bridge_free_NoNull ==
  LET held == w_ctx # NULL IN
  /\ liveW' = IF held THEN liveW \ {w_ctx} ELSE liveW
  /\ freedW' = IF held THEN freedW \cup {w_ctx} ELSE freedW
  /\ faults' = faults \cup (IF held THEN ReleaseFault("whisper", w_ctx, liveW) ELSE {})
  /\ last' = Call("whisper_free", TRUE,
                  IF held THEN <<Ev("whisper_free", w_ctx)>> ELSE <<>>, <<>>, <<>>)
  /\ UNCHANGED <<w_ctx, w_threads>>
  /\ UNCHANGED llamaVars

\* whisper_bridge_free (line 62-64)
whisper_bridge_free ==
  LET held == w_ctx # NULL IN
  /\ liveW' = IF held THEN liveW \ {w_ctx} ELSE liveW
  /\ freedW' = IF held THEN freedW \cup {w_ctx} ELSE freedW
  /\ faults' = faults \cup (IF held THEN ReleaseFault("whisper", w_ctx, liveW) ELSE {})
  /\ w_ctx' = NULL
  /\ last' = Call("whisper_free", TRUE,
                  IF held THEN <<Ev("whisper_free", w_ctx)>> ELSE <<>>, <<>>, <<>>)
  /\ UNCHANGED w_threads
  /\ UNCHANGED llamaVars

\* the segment texts a transcription pass may leave: whisper_full_get_segment_text
\* returns a string or a null pointer
SegTexts == {<<>>, <<" ">>, <<" ", "h">>, <<"y">>}
Segments == [null : {FALSE}, text : SegTexts] \cup {[null |-> TRUE, text |-> <<>>]}
SegLists == UNION {[1..k -> Segments] : k \in 0..MaxSegs}

\* line 52-56: out += seg for every segment that has a text
RECURSIVE Concat(_)
Concat(segs) ==
  IF segs = <<>> THEN <<>>
  ELSE (IF Head(segs).null THEN <<>> ELSE Head(segs).text) \o Concat(Tail(segs))

\* StripLeadingSpace removing every leading space
StripLeadingSpace_All(out) ==
  LET n == Cardinality({j \in 1..Len(out) : \A m \in 1..j : out[m] = " "})
  IN SubSeq(out, n + 1, Len(out))

\* line 58: if (!out.empty() && out[0] == ' ') out = out.substr(1)
StripLeadingSpace(out) ==
  IF out # <<>> /\ out[1] = " " THEN SubSeq(out, 2, Len(out)) ELSE out

\* whisper_bridge_transcribe releasing the handle when the pass fails
whisper_bridge_transcribe_FreeOnFailure ==
  \E status \in {0, 1}, segs \in SegLists :
    /\ IF w_ctx = NULL
         THEN /\ last' = Call("whisper_transcribe", TRUE, <<>>, <<>>, <<>>)
              /\ UNCHANGED <<faults, w_ctx, liveW, freedW>>
         ELSE /\ faults' = faults \cup UseFault("whisper", w_ctx, liveW)
              /\ IF status # 0
                   THEN /\ last' = Call("whisper_transcribe", TRUE,
                                        <<Ev("whisper_full", status),
                                          Ev("whisper_free", w_ctx)>>, <<>>, <<>>)
                        /\ w_ctx' = NULL
                        /\ liveW' = liveW \ {w_ctx}
                        /\ freedW' = freedW \cup {w_ctx}
                   ELSE /\ last' = Call("whisper_transcribe", TRUE,
                                        <<Ev("whisper_full", status),
                                          Ev("n_segments", Len(segs))>>
                                        \o [k \in 1..Len(segs) |->
                                              <<"segment_text", k - 1, segs[k]>>],
                                        <<>>, StripLeadingSpace(Concat(segs)))
                        /\ UNCHANGED <<w_ctx, liveW, freedW>>
    /\ UNCHANGED w_threads
    /\ UNCHANGED llamaVars

\* whisper_bridge_transcribe reading the segments whatever whisper_full returned
whisper_bridge_transcribe_IgnoreStatus ==
  \E status \in {0, 1}, segs \in SegLists :
    /\ IF w_ctx = NULL
         THEN /\ last' = Call("whisper_transcribe", TRUE, <<>>, <<>>, <<>>)
              /\ UNCHANGED faults
         ELSE /\ faults' = faults \cup UseFault("whisper", w_ctx, liveW)
              /\ last' = Call("whisper_transcribe", TRUE,
                              <<Ev("whisper_full", status),
                                Ev("n_segments", Len(segs))>>
                              \o [k \in 1..Len(segs) |->
                                    <<"segment_text", k - 1, segs[k]>>],
                              <<>>, StripLeadingSpace(Concat(segs)))
    /\ UNCHANGED <<w_ctx, w_threads, liveW, freedW>>
    /\ UNCHANGED llamaVars

\* whisper_bridge_transcribe (line 32-60)
whisper_bridge_transcribe ==
  \E status \in {0, 1}, segs \in SegLists :
    /\ IF w_ctx = NULL
         THEN /\ last' = Call("whisper_transcribe", TRUE, <<>>, <<>>, <<>>)
              /\ UNCHANGED faults
         ELSE /\ faults' = faults \cup UseFault("whisper", w_ctx, liveW)
              /\ IF status # 0
                   THEN last' = Call("whisper_transcribe", TRUE,
                                     <<Ev("whisper_full", status)>>, <<>>, <<>>)
                   ELSE last' = Call("whisper_transcribe", TRUE,
                                     <<Ev("whisper_full", status),
                                       Ev("n_segments", Len(segs))>>
                                     \o [k \in 1..Len(segs) |-> <<"segment_text", k - 1, segs[k]>>],
                                     <<>>, StripLeadingSpace(Concat(segs)))
    /\ UNCHANGED <<w_ctx, w_threads, liveW, freedW>>
    /\ UNCHANGED llamaVars

\* a call made by a run that drives bridge b
On(b, call) == bridge = b /\ t_pc = "idle" /\ call /\ UNCHANGED <<bridge, t_pc, t_i>>

Next ==
  \/ On("llama", llama_bridge_init)
  \/ On("llama", llama_bridge_translate)
  \/ On("llama", llama_bridge_free)
  \/ On("whisper", whisper_bridge_init)
  \/ On("whisper", whisper_bridge_transcribe)
  \/ On("whisper", whisper_bridge_free)

Spec == Init /\ [][Next]_vars

(* -------------- llama_bridge_translate, one engine call at a time ------- *)
\* The same function as llama_bridge_translate above, cut at the engine calls
\* that may each take the caller's thread for a while: after the guard and
\* llama_memory_clear ("tokenize"), at the head of the for loop ("loop"),
\* after the loop ("release").  `last` keeps
\* the record of the call made before.

\* tokens the sampler returns when the call is followed step by step
StepTokens == {TOK_EOG, 1}

\* line 52-55: the guard, then llama_memory_clear
TranslateEnter ==
  /\ t_pc = "idle"
  /\ IF g_ctx = NULL \/ g_model = NULL
       THEN UNCHANGED <<t_pc, ctx_mem, faults>>
       ELSE /\ t_pc' = "tokenize"
            /\ ctx_mem' = <<>>
            /\ faults' = faults \cup UseFault("ctx", g_ctx, liveCtxs)
                                \cup UseFault("model", g_model, liveModels)
                                \cup (IF g_ctx \in DOMAIN ctxModel
                                        THEN UseFault("model", ctxModel[g_ctx], liveModels)
                                        ELSE {})
  /\ UNCHANGED <<t_i, last>>

\* line 59-82: tokenize, retry, return when no token came out; decode the
\* prompt, return when that fails; else build the sampler chain and enter the
\* loop with i = 0
TranslatePrefill ==
  /\ t_pc = "tokenize"
  /\ \E psize \in PromptSizes, tk \in Tokenizations, status \in {0, 1} :
       IF TokenizePrompt(psize, tk).n <= 0 \/ status # 0
         THEN t_pc' = "idle" /\ UNCHANGED ctx_mem
         ELSE /\ t_pc' = "loop"
              /\ ctx_mem' = PromptTokens(TokenizePrompt(psize, tk).n)
  /\ t_i' = 0
  /\ UNCHANGED <<faults, last>>

\* TranslateLoopStep that does not leave the loop when i reaches the bound
TranslateLoopStep_NoExit ==
  /\ t_pc = "loop"
  /\ t_i < STEP_CAP
  /\ \E tok \in StepTokens, status \in {0, 1} :
       IF IsEog(tok)
         THEN t_pc' = "release" /\ UNCHANGED <<t_i, ctx_mem>>
         ELSE IF status # 0
           THEN t_pc' = "release" /\ UNCHANGED <<t_i, ctx_mem>>
           ELSE /\ t_i' = t_i + 1
                /\ ctx_mem' = Append(ctx_mem, tok)
                /\ UNCHANGED t_pc
  /\ UNCHANGED <<faults, last>>

\* line 85-94: the test i < 512 and one turn of the loop
TranslateLoopStep ==
  /\ t_pc = "loop"
  /\ IF t_i < STEP_CAP
       THEN \E tok \in StepTokens, status \in {0, 1} :
              IF IsEog(tok)
                THEN t_pc' = "release" /\ UNCHANGED <<t_i, ctx_mem>>
                ELSE IF status # 0
                  THEN t_pc' = "release" /\ UNCHANGED <<t_i, ctx_mem>>
                  ELSE /\ t_i' = t_i + 1
                       /\ ctx_mem' = Append(ctx_mem, tok)
                       /\ UNCHANGED t_pc
       ELSE t_pc' = "release" /\ UNCHANGED <<t_i, ctx_mem>>
  /\ UNCHANGED <<faults, last>>

\* line 96-97: llama_sampler_free, return
TranslateRelease ==
  /\ t_pc = "release"
  /\ t_pc' = "idle"
  /\ t_i' = 0
  /\ UNCHANGED <<ctx_mem, faults, last>>

\* a step of a call of llama_bridge_translate that has passed its guard
InCall(step) ==
  /\ bridge = "llama"
  /\ step
  /\ UNCHANGED <<bridge, g_model, g_ctx, g_threads, liveModels, freedModels,
                 liveCtxs, freedCtxs, ctxModel>>
  /\ UNCHANGED whisperVars

TranslateStep ==
  \/ InCall(TranslatePrefill)
  \/ InCall(TranslateLoopStep)
  \/ InCall(TranslateRelease)

NextSteps ==
  \/ On("llama", llama_bridge_init)
  \/ InCall(TranslateEnter)
  \/ InCall(TranslatePrefill)
  \/ InCall(TranslateLoopStep)
  \/ InCall(TranslateRelease)

\* Every engine call and every callback returns: a call that has started
\* takes its next step.
SpecSteps == Init /\ [][NextSteps]_vars /\ WF_vars(TranslateStep)

(* ============================== claims ================================== *)

\* C1 (as claimed): between calls at most one language-model handle and at
\* most one inference context are live.
C1_AtMostOneLive ==
  /\ Cardinality(liveModels) <= 1
  /\ Cardinality(liveCtxs) <= 1

\* C2: at most one ASR handle is live and it is the one held; a successful
\* init leaves exactly one handle, live and held; within an init every release
\* comes before the load.
C2_WhisperState ==
  /\ Cardinality(liveW) <= 1
  /\ liveW = {w_ctx} \ {NULL}
  /\ last.op = "whisper_init" =>
       /\ last.ok <=> w_ctx # NULL
       /\ last.ok => liveW = {w_ctx}
       /\ \A f \in At(last.events, "whisper_free") :
            \A l \in At(last.events, "whisper_load") : f < l

\* C2: an init called with a handle held releases that handle first.
C2_WhisperInitStep ==
  (last'.op = "whisper_init" /\ w_ctx # NULL) =>
     /\ last'.events[1] = Ev("whisper_free", w_ctx)
     /\ w_ctx \in freedW'

\* C2: the ASR manager never has two live handles, and init releases the
\* handle held before it loads.
C2_WhisperSingleHandle == [](C2_WhisperState) /\ [][C2_WhisperInitStep]_vars

\* C2 witness: an init that released the handle held and loaded a new one.
C2_Witness ==
  /\ last.op = "whisper_init"
  /\ last.ok
  /\ Len(last.events) = 2
  /\ last.events[1][1] = "whisper_free"

\* the last call was an init whose model load failed
LoadFailed ==
  /\ last.op = "llama_init"
  /\ ~last.ok
  /\ last.events = <<Ev("model_load", NULL)>>

\* C3 (as claimed): after an init whose model load failed, no handle and no
\* context is retained or live.
C3_LoadFailureLeavesNothing ==
  LoadFailed =>
    /\ g_model = NULL
    /\ g_ctx = NULL
    /\ liveModels = {}
    /\ liveCtxs = {}

\* the last call was an init whose model loaded and whose context was not created
CtxCreationFailed ==
  /\ last.op = "llama_init"
  /\ Len(last.events) >= 2
  /\ last.events[1][1] = "model_load"
  /\ last.events[1][2] # NULL
  /\ last.events[2] = Ev("ctx_new", NULL)

\* C4: when the model loads and the context is not created, init returns false,
\* the model it loaded has been released, and neither a handle nor a context
\* is held.
C4_CtxFailureReleasesModel ==
  CtxCreationFailed =>
    /\ ~last.ok
    /\ Len(last.events) = 3
    /\ last.events[3] = Ev("model_free", last.events[1][2])
    /\ last.events[1][2] \in freedModels
    /\ last.events[1][2] \notin liveModels
    /\ g_model = NULL
    /\ g_ctx = NULL

\* C4 witness: context creation failed in an init called with a pair held.
C4_Witness ==
  /\ CtxCreationFailed
  /\ liveCtxs # {}

\* C5: no released handle or context is handed to an engine operation or
\* released again.
C5_NoUseAfterRelease == faults = {}

\* C5 witness: a translate call made after both a model and a context were
\* released.
C5_Witness ==
  /\ last.op = "llama_translate"
  /\ freedModels # {}
  /\ freedCtxs # {}

\* C6: a run call made with no handle held does nothing.
C6_NoHandleStep ==
  /\ (last'.op = "llama_translate" /\ g_model = NULL) =>
        /\ last'.cbs = <<>>
        /\ last'.events = <<>>
        /\ UNCHANGED llamaVars
        /\ UNCHANGED faults
  /\ (last'.op = "whisper_transcribe" /\ w_ctx = NULL) =>
        /\ last'.text = <<>>
        /\ last'.events = <<>>
        /\ UNCHANGED whisperVars
        /\ UNCHANGED faults

\* C6: with no handle held, translate invokes no callback, makes no engine
\* call and changes nothing of the manager; transcribe returns the empty
\* string, makes no engine call and changes nothing of the manager.
C6_NoHandleNoOp == [][C6_NoHandleStep]_vars

\* C6 witness: translate returned at once after a failed re-init, the stale
\* context still in g_ctx.
C6_Witness ==
  /\ last.op = "llama_translate"
  /\ last.events = <<>>
  /\ g_model = NULL
  /\ g_ctx # NULL

\* C7: a free leaves nothing held, and a free that follows a free changes
\* nothing and releases nothing.
C7_FreeStep ==
  /\ last'.op = "llama_free" => (g_model' = NULL /\ g_ctx' = NULL)
  /\ last'.op = "whisper_free" => w_ctx' = NULL
  /\ (last.op = "llama_free" /\ last'.op = "llama_free") =>
        /\ last'.events = <<>>
        /\ UNCHANGED llamaVars
        /\ UNCHANGED faults
  /\ (last.op = "whisper_free" /\ last'.op = "whisper_free") =>
        /\ last'.events = <<>>
        /\ UNCHANGED whisperVars
        /\ UNCHANGED faults

\* C7: free is idempotent for both managers.
C7_FreeIdempotent == [][C7_FreeStep]_vars

\* C7 witness: a free that found nothing to release, after a pair was released.
C7_Witness ==
  /\ last.op = "llama_free"
  /\ last.events = <<>>
  /\ freedModels # {}
  /\ freedCtxs # {}

\* C8: a translate call invokes the callback at most 512 times, and the sample
\* of an end-of-generation token is followed by nothing but the release of the
\* sampler chain: no callback, no sample, no decode.
C8_CappedAndStopsAtEog ==
  last.op = "llama_translate" =>
    /\ Len(last.cbs) <= STEP_CAP
    /\ Cardinality(At(last.events, "on_token")) = Len(last.cbs)
    /\ Cardinality(At(last.events, "sample")) <= STEP_CAP
    /\ \A k \in At(last.events, "sample") :
         IsEog(last.events[k][2]) =>
           /\ Len(last.events) = k + 1
           /\ last.events[k + 1] = Ev("sampler_free", 0)

\* C8 witness: a call that delivered 512 fragments.
C8_Witness ==
  /\ last.op = "llama_translate"
  /\ Len(last.cbs) = STEP_CAP

\* the sampled tokens of a call that are not end-of-generation tokens
Produced(events) ==
  SelectSeq(Args(events, "sample"), LAMBDA tok : ~IsEog(tok))

\* C9 (as claimed): the callback invocations are, in order, the rendered
\* fragments of the sampled non-end-of-generation tokens, one per token.
C9_OnePerToken ==
  last.op = "llama_translate" =>
    LET toks == Produced(last.events)
    IN last.cbs = [k \in 1..Len(toks) |-> PieceText(toks[k])]

\* the sampled tokens whose rendering into the piece buffer has a positive length
Rendered(events) ==
  SelectSeq(Produced(events), LAMBDA tok : TokenToPiece(tok) > 0)

\* C9 (amended): the callback invocations are, in order, the rendered fragments
\* of the sampled non-end-of-generation tokens whose rendering has a positive
\* length, one per such token, each invoked right after its token is sampled.
C9_OnePerRenderedToken ==
  last.op = "llama_translate" =>
    LET toks == Rendered(last.events)
    IN /\ last.cbs = [k \in 1..Len(toks) |-> PieceText(toks[k])]
       /\ Args(last.events, "on_token") = toks
       /\ \A k \in At(last.events, "on_token") :
            k > 1 /\ last.events[k - 1] = Ev("sample", last.events[k][2])

\* C9 witness: a call that delivered two different fragments and skipped a token.
C9_Witness ==
  /\ last.op = "llama_translate"
  /\ Len(last.cbs) >= 2
  /\ last.cbs[1] # last.cbs[2]

\* C10: a call creates a sampler chain exactly when its prefill succeeded,
\* releases it exactly once as the last thing it does, and samples only
\* between the two.
C10_SamplerReleased ==
  last.op = "llama_translate" =>
    LET e == last.events
        inits == At(e, "sampler_init")
        frees == At(e, "sampler_free")
    IN /\ Cardinality(inits) <= 1
       /\ Cardinality(frees) = Cardinality(inits)
       /\ (inits # {}) <=> (At(e, "prefill") # {})
       /\ \A f \in frees : f = Len(e) /\ \A i \in inits : i < f
       /\ \A k \in At(e, "sample") :
            /\ \E i \in inits : i < k
            /\ \A f \in frees : k < f

\* C10 witness: a call cut short by a failed step decode released its chain.
C10_Witness ==
  /\ last.op = "llama_translate"
  /\ At(last.events, "decode_fail") # {}
  /\ last.events[Len(last.events)] = Ev("sampler_free", 0)

\* the ways a call of translate recorded in c ends without completing generation
NeverStarted(c) == c.op = "llama_translate" /\ c.events = <<>>
TokenizationFailed(c) ==
  /\ c.op = "llama_translate"
  /\ LET t == Args(c.events, "tokenize") IN t # <<>> /\ t[Len(t)] <= 0
PrefillFailed(c) == c.op = "llama_translate" /\ At(c.events, "prefill_fail") # {}
StepDecodeFailed(c) == c.op = "llama_translate" /\ At(c.events, "decode_fail") # {}

\* C11 (as claimed): a translate call that never starts or fails (no handle,
\* tokenization yielding no token, prefill decode error, step-decode error)
\* invokes the callback zero times.
C11_FailedCallNoCallback ==
  (NeverStarted(last) \/ TokenizationFailed(last) \/ PrefillFailed(last)
     \/ StepDecodeFailed(last))
  => last.cbs = <<>>

\* C11 (amended): a translate call that never starts or fails before generation
\* (no handle, tokenization yielding no token, prefill decode error) invokes
\* the callback zero times.
C11_FailedBeforeGenerationNoCallback ==
  (NeverStarted(last) \/ TokenizationFailed(last) \/ PrefillFailed(last))
  => /\ last.cbs = <<>>
     /\ At(last.events, "on_token") = {}

\* C11 witness: a call whose prefill decode failed.
C11_Witness == PrefillFailed(last) /\ g_ctx \in liveCtxs

\* C12 (as claimed): a call whose tokenization yields zero or a negative count
\* after the retry delivers nothing, runs no prefill and no sampling, and
\* leaves the handle, the context and the context's memory as they were.
C12_TokenizationFailureStepAsClaimed ==
  TokenizationFailed(last') =>
    /\ last'.cbs = <<>>
    /\ At(last'.events, "prefill") = {}
    /\ At(last'.events, "prefill_fail") = {}
    /\ At(last'.events, "sample") = {}
    /\ UNCHANGED <<g_model, g_ctx, liveModels, liveCtxs>>
    /\ ctx_mem' = ctx_mem
C12_TokenizationFailureNoEffect == [][C12_TokenizationFailureStepAsClaimed]_vars

\* C12 (amended): a call whose tokenization yields zero or a negative count
\* after the retry delivers nothing, runs no prefill and no sampling, and
\* leaves the handle and the context as they were; the context's memory is
\* empty after it, whatever it held before.
C12_TokenizationFailureStep ==
  TokenizationFailed(last') =>
    /\ last'.cbs = <<>>
    /\ At(last'.events, "prefill") = {}
    /\ At(last'.events, "prefill_fail") = {}
    /\ At(last'.events, "sample") = {}
    /\ UNCHANGED <<g_model, g_ctx, liveModels, liveCtxs>>
    /\ ctx_mem' = <<>>
C12_TokenizationFailureClearsOnly == [][C12_TokenizationFailureStep]_vars

\* C12 witness: a call whose retry returned a negative count again.
C12_Witness ==
  /\ TokenizationFailed(last)
  /\ Len(Args(last.events, "tokenize")) = 2
  /\ Args(last.events, "tokenize")[2] < 0
  /\ g_ctx # NULL

\* C13: translate changes neither the model nor the context held, nor what is
\* loaded; transcribe changes neither the ASR handle held nor what is loaded;
\* a call that follows another on a held handle runs the engine on it.
C13_RunStep ==
  /\ last'.op = "llama_translate" =>
       UNCHANGED <<g_model, g_ctx, liveModels, freedModels, liveCtxs, freedCtxs>>
  /\ last'.op = "whisper_transcribe" => UNCHANGED <<w_ctx, liveW, freedW>>
  /\ (last.op = "llama_translate" /\ last.events # <<>>
        /\ last'.op = "llama_translate")
       => /\ last'.events # <<>>
          /\ last'.events[1] = Ev("memory_clear", 0)
  /\ (last.op = "whisper_transcribe" /\ last.events # <<>>
        /\ last'.op = "whisper_transcribe")
       => /\ last'.events # <<>>
          /\ last'.events[1][1] = "whisper_full"
C13_RunKeepsHandle == [][C13_RunStep]_vars

\* C13 witness: after a failed step decode the model and the context are held
\* and loaded.
C13_Witness ==
  /\ StepDecodeFailed(last)
  /\ g_model \in liveModels
  /\ g_ctx \in liveCtxs

\* C14: a transcription pass that returns a non-zero status makes transcribe
\* return the empty string without reading a segment, the handle still held
\* and loaded.
C14_FailedPassReturnsEmpty ==
  (last.op = "whisper_transcribe"
     /\ \E k \in At(last.events, "whisper_full") : last.events[k][2] # 0)
  => /\ last.text = <<>>
     /\ At(last.events, "n_segments") = {}
     /\ At(last.events, "segment_text") = {}
     /\ w_ctx # NULL
     /\ w_ctx \in liveW

\* C14 witness: a pass that failed on a loaded handle.
C14_Witness ==
  /\ last.op = "whisper_transcribe"
  /\ last.events = <<Ev("whisper_full", 1)>>
  /\ w_ctx \in liveW

\* the segments a call of transcribe read, in the order it read them
SegmentsRead(events) ==
  LET sel == SelectSeq(events, LAMBDA e : e[1] = "segment_text")
  IN [k \in 1..Len(sel) |-> sel[k][3]]

\* C15: after a successful pass transcribe reads the segments 0 .. n-1 in
\* order and returns their texts concatenated, less one leading space when
\* the concatenation begins with one, and unchanged when it does not.
C15_ConcatenationLessOneSpace ==
  (last.op = "whisper_transcribe" /\ At(last.events, "n_segments") # {}) =>
    LET read == SegmentsRead(last.events)
        raw == Concat(read)
    IN /\ Args(last.events, "n_segments") = <<Len(read)>>
       /\ Args(last.events, "segment_text") = [k \in 1..Len(read) |-> k - 1]
       /\ (raw # <<>> /\ raw[1] = " ") => (<<" ">> \o last.text = raw)
       /\ ~(raw # <<>> /\ raw[1] = " ") => (last.text = raw)

\* C15 witness: the text returned still begins with a space, the second of
\* two leading spaces.
C15_Witness ==
  /\ last.op = "whisper_transcribe"
  /\ Len(last.text) >= 2
  /\ last.text[1] = " "

C17_TokenizeAtMostTwice ==
  /\ (last.op = "llama_translate" /\ last.events # <<>>) =>
       LET e == last.events
           t == Args(e, "tokenize")
           r == Args(e, "resize")
       IN /\ Len(t) \in {1, 2}
          /\ (Len(t) = 2) <=> (t[1] < 0)
          /\ e[2] = Ev("tokenize", t[1])
          /\ IF t[1] < 0
               THEN /\ r = <<0 - t[1]>>
                    /\ e[3] = Ev("resize", 0 - t[1])
                    /\ e[4] = Ev("tokenize", t[2])
               ELSE r = <<>>
          /\ (Len(t) = 2 /\ t[2] > 0) =>
               /\ t[2] = 0 - t[1]
               /\ e[5] \in {Ev("prefill", t[2]), Ev("prefill_fail", t[2])}
               /\ e[5][1] = "prefill" =>
                    SubSeq(ctx_mem, 1, t[2]) = PromptTokens(t[2])
  /\ \A psize \in PromptSizes, tk \in Tokenizations :
       (tk.under = 0 /\ Tokenize(tk, psize + TOK_SLACK) < 0) =>
          /\ Tokenize(tk, psize + TOK_SLACK) = 0 - tk.count
          /\ TokenizePrompt(psize, tk).n = tk.count

\* C17 witness: a call whose retry gave the tokens that were then decoded.
C17_Witness ==
  /\ last.op = "llama_translate"
  /\ Len(Args(last.events, "tokenize")) = 2
  /\ Args(last.events, "prefill") = <<TOK_SLACK + 1>>

\* C18: after a failed step decode the call samples, delivers and decodes
\* nothing more: it releases the sampler chain and returns; every fragment
\* delivered before, the one of the token whose decode failed included, is
\* among the fragments delivered.
C18_StopsAtFailedDecode ==
  last.op = "llama_translate" =>
    \A k \in At(last.events, "decode_fail") :
      LET e == last.events
          tok == e[k][2]
          len == TokenToPiece(tok)
      IN /\ Len(e) = k + 1
         /\ e[k + 1] = Ev("sampler_free", 0)
         /\ Len(last.cbs) = Cardinality(At(e, "on_token"))
         /\ len > 0 => /\ e[k - 1] = Ev("on_token", tok)
                       /\ last.cbs # <<>>
                       /\ last.cbs[Len(last.cbs)] = SubSeq(PieceText(tok), 1, len)

\* C18 witness: the second step decode failed after two fragments were
\* delivered.
C18_Witness ==
  /\ StepDecodeFailed(last)
  /\ Len(Args(last.events, "decode")) = 1
  /\ Len(last.cbs) = 2

\* C19: a call of translate that has started returns: at an end-of-generation
\* token, at a failed decode, or after at most 512 turns of the loop.
C19_TranslateReturns ==
  /\ [](t_i <= STEP_CAP)
  /\ (t_pc # "idle") ~> (t_pc = "idle")

\* C19 witness: the loop has been left because i reached 512.
C19_Witness == t_pc = "release" /\ t_i = STEP_CAP

\* C20 (as claimed): between calls a context is held exactly when a model is
\* held, and the context held was created from the model held.
C20_ContextIffModel ==
  /\ (g_ctx # NULL) <=> (g_model # NULL)
  /\ g_ctx # NULL => (g_ctx \in DOMAIN ctxModel /\ ctxModel[g_ctx] = g_model)

====
